---------------------------- MODULE Spec2Model ----------------------------
(***************************************************************************)
(* Model of the serv00 keep-alive login client (src/serv00_login.py) and   *)
(* of check_account and main (src/main.py) that use it.                    *)
(*                                                                         *)
(*   Spec, FairSpec  one client in the with block of check_account         *)
(*   ClassSpec       the result classifier on its own                      *)
(*   MainSpec        main: the loop over the accounts and the exit status  *)
(*   DuoSpec         two client instances taking turns                     *)
(*                                                                         *)
(* Text (response bodies, URLs, messages, details) is a sequence of        *)
(* characters; a character is a one-character string, a non-ASCII          *)
(* character is written "Uxxxx" (its code point).  Python's None is the    *)
(* value None below, which no text equals; an absent exception is         *)
(* NoException and an absent response NoResponse.                          *)
(***************************************************************************)
EXTENDS Integers, Sequences, FiniteSets, TLC

VARIABLES
    account,       \* the account being checked: [panel_url, username]
    retry_count,   \* settings['retry_count'], the argument of login
    panel_url,     \* self.panel_url
    sessions,      \* every requests.Session created so far, in creation order
    session,       \* self.session: an index into sessions
    pc,            \* where the check of the account stands
    attempt,       \* iterations of the retry loop entered so far
    last_error,    \* login's local last_error
    csrf_token,    \* _do_login's local csrf_token
    response,      \* _do_login's local response (of the POST)
    returned,      \* the LoginResult values login has returned, in order
    escaped,       \* the exception that left login, or NoException
    log,           \* every HTTP request issued, in order
    attemptStart,  \* the session (cookies, headers) each attempt started on
    parsed,        \* the responses handed to _parse_login_result, in order
    config,        \* config['accounts'], the accounts main checks
    idx,           \* how many accounts the loop of main has taken up
    results,       \* main's results list
    commands,      \* the on_banned commands run so far, with their outcome
    exit_code,     \* the status the process exited with, NotExited before
    cur,           \* which client instance is running: 1 or 2
    other          \* a second client instance, set aside while cur runs

\* what a client instance and the call of login on it own
client == <<account, retry_count, panel_url, sessions, session, pc, attempt,
            last_error, csrf_token, response, returned, escaped, log,
            attemptStart, parsed>>

\* the same without the position
client_but_pc == <<account, retry_count, panel_url, sessions, session, attempt,
                   last_error, csrf_token, response, returned, escaped, log,
                   attemptStart, parsed>>

\* what main owns
outer == <<config, idx, results, commands, exit_code>>

vars == <<client, outer, cur, other>>

---------------------------------------------------------------------------
(* Bounds of the model. *)

MaxRetry == 3
MaxPageLen == 2
MaxRespLen == 1
MaxBodyLen == 3

---------------------------------------------------------------------------
(* Text. *)

None == <<"None">>

\* the process has not exited
NotExited == 0 - 1

\* no second client instance
NoInstance == [pc |-> "none"]

WHITESPACE == {" ", "\n", "\t", "\r"}

Min(S) == CHOOSE m \in S : \A n \in S : m <= n

Max(S) == CHOOSE m \in S : \A n \in S : m >= n

\* text[i..] starts with lit
LitAt(text, i, lit) ==
    /\ i >= 1
    /\ i + Len(lit) - 1 <= Len(text)
    /\ \A j \in 1..Len(lit) : text[i + j - 1] = lit[j]

\* Python's `keyword in content`: substring containment
KeywordIn(keyword, content) ==
    \E i \in 1..(Len(content) - Len(keyword) + 1) : LitAt(content, i, keyword)

\* the first index >= i of a character in Stop, Len(text)+1 when there is none
StopAt(text, i, Stop) ==
    Min({k \in i..(Len(text) + 1) : k = Len(text) + 1 \/ text[k] \in Stop})

\* the first index >= i of a character not in In, Len(text)+1 when there is none
SkipIn(text, i, In) ==
    Min({k \in i..(Len(text) + 1) : k = Len(text) + 1 \/ text[k] \notin In})

\* str.strip()
Strip(text) ==
    LET keep == {k \in 1..Len(text) : text[k] \notin WHITESPACE}
    IN  IF keep = {} THEN <<>> ELSE SubSeq(text, Min(keep), Max(keep))

\* str.rstrip('/')
RstripSlash(text) ==
    LET keep == {k \in 1..Len(text) : text[k] # "/"}
    IN  IF keep = {} THEN <<>> ELSE SubSeq(text, 1, Max(keep))

\* str(n) of a small integer
Str(n) ==
    LET digit(d) == <<"0", "1", "2", "3", "4", "5", "6", "7", "8", "9">>[d + 1]
        abs == IF n < 0 THEN 0 - n ELSE n
        digits == IF abs < 10 THEN <<digit(abs)>>
                  ELSE <<digit(abs \div 10), digit(abs % 10)>>
    IN  IF n < 0 THEN <<"-">> \o digits ELSE digits

RECURSIVE Concat(_)
Concat(chunks) ==
    IF chunks = <<>> THEN <<>> ELSE Head(chunks) \o Concat(Tail(chunks))

\* the sequences of at most n elements of S
RECURSIVE SeqsUpTo(_, _)
SeqsUpTo(S, n) ==
    IF n = 0 THEN {<<>>}
    ELSE LET shorter == SeqsUpTo(S, n - 1)
         IN  shorter \cup {Append(s, x) : s \in shorter, x \in S}

---------------------------------------------------------------------------
(* AccountStatus, the keyword lists and the fixed texts. *)

ACTIVE == "active"
BANNED == "banned"
LOGIN_FAILED == "login_failed"
NETWORK_ERROR == "network_error"
UNKNOWN == "unknown"

AccountStatus == {ACTIVE, BANNED, LOGIN_FAILED, NETWORK_ERROR, UNKNOWN}

KONTO_ZABLOKOWANE == <<"K","o","n","t","o"," ","z","a","b","l","o","k","o","w","a","n","e">>
ACCOUNT_BLOCKED == <<"A","c","c","o","u","n","t"," ","b","l","o","c","k","e","d">>
BLOCKED == <<"b","l","o","c","k","e","d">>
STRONA_GLOWNA == <<"S","t","r","o","n","a"," ","g","U0142","U00F3","w","n","a">>
ZALOGOWANY_JAKO == <<"Z","a","l","o","g","o","w","a","n","y"," ","j","a","k","o">>
DASHBOARD == <<"D","a","s","h","b","o","a","r","d">>
ZALOGUJ_SIE == <<"Z","a","l","o","g","u","j"," ","s","i","U0119">>
LOGIN == <<"L","o","g","i","n">>
SIGN_IN == <<"S","i","g","n"," ","i","n">>

BANNED_KEYWORDS == <<KONTO_ZABLOKOWANE, ACCOUNT_BLOCKED, BLOCKED>>
SUCCESS_KEYWORDS == <<STRONA_GLOWNA, ZALOGOWANY_JAKO, DASHBOARD>>
LOGIN_PAGE_KEYWORDS == <<ZALOGUJ_SIE, LOGIN, SIGN_IN>>

CSRF_NAME == <<"n","a","m","e","=","\"","c","s","r","f","m","i","d","d","l","e","w","a","r","e","t","o","k","e","n","\"">>
CSRF_VALUE == <<"v","a","l","u","e","=","\"">>
KONTO_WAZNE_DO == <<"K","o","n","t","o"," ","w","a","U017C","n","e"," ","d","o">>
CLASS_ATTR == <<"c","l","a","s","s","=","\"">>
ALERT == <<"a","l","e","r","t">>

DEFAULT_BAN_REASON == <<"T","O","S"," ","U8FDD","U89C4">>
VALIDITY_PREFIX == <<"U6709","U6548","U671F","U81F3",":"," ">>
DEFAULT_ERROR_MESSAGE == <<"U7528","U6237","U540D","U6216","U5BC6","U7801","U9519","U8BEF">>
URL_PREFIX == <<"U54CD","U5E94"," ","U","R","L",":"," ">>
MSG_BANNED == <<"U8D26","U53F7","U5DF2","U88AB","U5C01","U7981">>
MSG_ACTIVE == <<"U8D26","U53F7","U6B63","U5E38">>
MSG_LOGIN_FAILED == <<"U767B","U5F55","U5931","U8D25">>
MSG_UNKNOWN == <<"U65E0","U6CD5","U5224","U65AD","U8D26","U53F7","U72B6","U6001">>
MSG_NO_TOKEN == <<"U65E0","U6CD5","U83B7","U53D6"," ","C","S","R","F"," ","t","o","k","e","n">>
MSG_RETRY_PREFIX == <<"U7F51","U7EDC","U9519","U8BEF"," ","(","U91CD","U8BD5"," ">>
MSG_RETRY_SUFFIX == <<" ","U6B21","U540E","U5931","U8D25",")">>
LOGIN_PATH == <<"/","l","o","g","i","n","/">>

LoginResult(status, message, url, username, details) ==
    [status |-> status, message |-> message, panel_url |-> url,
     username |-> username, details |-> details]


---------------------------------------------------------------------------
(* The detail extractors of the classifier. *)

\* the places where the group ([^<\n]+) can start after [:\s]* has matched
\* from j: the end of the separator run, or, giving characters back, a
\* separator before it
GroupStarts(content, j) ==
    LET s == SkipIn(content, j, {":"} \cup WHITESPACE)
    IN  {p \in j..s : p <= Len(content) /\ content[p] \notin {"<", "\n"}}

\* re.search(lit + r'[:\s]*([^<\n]+)', content): group 1 of the leftmost
\* match, None when nothing matches
SearchLabelled(lit, content) ==
    LET starts == {i \in 1..Len(content) :
                     /\ LitAt(content, i, lit)
                     /\ GroupStarts(content, i + Len(lit)) # {}}
    IN  IF starts = {} THEN None
        ELSE LET p == Max(GroupStarts(content, Min(starts) + Len(lit)))
             IN  SubSeq(content, p, StopAt(content, p, {"<", "\n"}) - 1)

_extract_ban_reason(content) ==
    LET group == SearchLabelled(KONTO_ZABLOKOWANE, content)
    IN  IF group # None THEN Strip(group) ELSE DEFAULT_BAN_REASON

_extract_account_validity(content) ==
    LET group == SearchLabelled(KONTO_WAZNE_DO, content)
    IN  IF group # None THEN VALIDITY_PREFIX \o Strip(group) ELSE None

\* where group 1 of class="[^"]*alert[^"]*"[^>]*>([^<]+) starts for a match
\* that starts at i, 0 when there is no match at i
AlertGroupStart(content, i) ==
    IF ~LitAt(content, i, CLASS_ATTR) THEN 0
    ELSE LET a == i + Len(CLASS_ATTR)
             q == StopAt(content, a, {"\""})
             g == StopAt(content, q + 1, {">"})
         IN  IF /\ q <= Len(content)
                /\ KeywordIn(ALERT, SubSeq(content, a, q - 1))
                /\ g + 1 <= Len(content)
                /\ content[g + 1] # "<"
             THEN g + 1 ELSE 0

\* the group of the first match, returned as matched, without strip()
ExtractErrorUnstripped(content) ==
    LET starts == {i \in 1..Len(content) : AlertGroupStart(content, i) # 0}
    IN  IF starts = {} THEN None
        ELSE LET p == AlertGroupStart(content, Min(starts))
             IN  SubSeq(content, p, StopAt(content, p, {"<"}) - 1)

_extract_error_message(content) ==
    LET starts == {i \in 1..Len(content) : AlertGroupStart(content, i) # 0}
    IN  IF starts = {} THEN None
        ELSE LET p == AlertGroupStart(content, Min(starts))
             IN  Strip(SubSeq(content, p, StopAt(content, p, {"<"}) - 1))

---------------------------------------------------------------------------
(* The result classifier. *)

\* `for keyword in keywords: if keyword in content`
AnyKeywordIn(keywords, content) ==
    \E k \in 1..Len(keywords) : KeywordIn(keywords[k], content)

\* a classifier that looks for the success keywords first
ParseSuccessFirst(resp, username) ==
    LET content == resp.text
    IN  IF AnyKeywordIn(SUCCESS_KEYWORDS, content)
        THEN LoginResult(ACTIVE, MSG_ACTIVE, panel_url, username,
                         _extract_account_validity(content))
        ELSE IF AnyKeywordIn(BANNED_KEYWORDS, content)
        THEN LoginResult(BANNED, MSG_BANNED, panel_url, username,
                         _extract_ban_reason(content))
        ELSE IF AnyKeywordIn(LOGIN_PAGE_KEYWORDS, content)
        THEN LET error_msg == _extract_error_message(content)
             IN  LoginResult(LOGIN_FAILED, MSG_LOGIN_FAILED, panel_url, username,
                             IF error_msg # None /\ error_msg # <<>>
                             THEN error_msg ELSE DEFAULT_ERROR_MESSAGE)
        ELSE LoginResult(UNKNOWN, MSG_UNKNOWN, panel_url, username,
                         URL_PREFIX \o resp.url)

\* a classifier that looks for the login-page keywords before the success
\* keywords
ParseLoginPageFirst(resp, username) ==
    LET content == resp.text
    IN  IF AnyKeywordIn(BANNED_KEYWORDS, content)
        THEN LoginResult(BANNED, MSG_BANNED, panel_url, username,
                         _extract_ban_reason(content))
        ELSE IF AnyKeywordIn(LOGIN_PAGE_KEYWORDS, content)
        THEN LET error_msg == _extract_error_message(content)
             IN  LoginResult(LOGIN_FAILED, MSG_LOGIN_FAILED, panel_url, username,
                             IF error_msg # None /\ error_msg # <<>>
                             THEN error_msg ELSE DEFAULT_ERROR_MESSAGE)
        ELSE IF AnyKeywordIn(SUCCESS_KEYWORDS, content)
        THEN LoginResult(ACTIVE, MSG_ACTIVE, panel_url, username,
                         _extract_account_validity(content))
        ELSE LoginResult(UNKNOWN, MSG_UNKNOWN, panel_url, username,
                         URL_PREFIX \o resp.url)

\* a classifier that reports the panel URL, not the URL of the response
ParseReportsPanelUrl(resp, username) ==
    LET content == resp.text
    IN  IF AnyKeywordIn(BANNED_KEYWORDS, content)
        THEN LoginResult(BANNED, MSG_BANNED, panel_url, username,
                         _extract_ban_reason(content))
        ELSE IF AnyKeywordIn(SUCCESS_KEYWORDS, content)
        THEN LoginResult(ACTIVE, MSG_ACTIVE, panel_url, username,
                         _extract_account_validity(content))
        ELSE IF AnyKeywordIn(LOGIN_PAGE_KEYWORDS, content)
        THEN LET error_msg == _extract_error_message(content)
             IN  LoginResult(LOGIN_FAILED, MSG_LOGIN_FAILED, panel_url, username,
                             IF error_msg # None /\ error_msg # <<>>
                             THEN error_msg ELSE DEFAULT_ERROR_MESSAGE)
        ELSE LoginResult(UNKNOWN, MSG_UNKNOWN, panel_url, username,
                         URL_PREFIX \o panel_url)

_parse_login_result(resp, username) ==
    LET content == resp.text
    IN  IF AnyKeywordIn(BANNED_KEYWORDS, content)
        THEN LoginResult(BANNED, MSG_BANNED, panel_url, username,
                         _extract_ban_reason(content))
        ELSE IF AnyKeywordIn(SUCCESS_KEYWORDS, content)
        THEN LoginResult(ACTIVE, MSG_ACTIVE, panel_url, username,
                         _extract_account_validity(content))
        ELSE IF AnyKeywordIn(LOGIN_PAGE_KEYWORDS, content)
        THEN LET error_msg == _extract_error_message(content)
             IN  LoginResult(LOGIN_FAILED, MSG_LOGIN_FAILED, panel_url, username,
                             IF error_msg # None /\ error_msg # <<>>
                             THEN error_msg ELSE DEFAULT_ERROR_MESSAGE)
        ELSE LoginResult(UNKNOWN, MSG_UNKNOWN, panel_url, username,
                         URL_PREFIX \o resp.url)

---------------------------------------------------------------------------
(* Sessions and their headers. *)

\* dict.update
HeadersUpdate(headers, new) ==
    [k \in DOMAIN headers \cup DOMAIN new |->
        IF k \in DOMAIN new THEN new[k] ELSE headers[k]]

\* the headers requests.Session() starts with
LIBRARY_HEADERS ==
    ("User-Agent" :> "python-requests") @@
    ("Accept-Encoding" :> "gzip, deflate") @@
    ("Accept" :> "*/*") @@
    ("Connection" :> "keep-alive")

\* the headers __init__ sets
BROWSER_HEADERS ==
    ("User-Agent" :> "Mozilla/5.0 (Windows NT 10.0; Win64; x64) AppleWebKit/537.36 (KHTML, like Gecko) Chrome/120.0.0.0 Safari/537.36") @@
    ("Accept" :> "text/html,application/xhtml+xml,application/xml;q=0.9,image/webp,*/*;q=0.8") @@
    ("Accept-Language" :> "en-US,en;q=0.5") @@
    ("Accept-Encoding" :> "gzip, deflate, br") @@
    ("Connection" :> "keep-alive")

\* the headers login sets on the session it builds before a retry
RETRY_HEADERS ==
    ("User-Agent" :> "Mozilla/5.0 (Windows NT 10.0; Win64; x64) AppleWebKit/537.36")

\* requests.Session() followed by headers.update(headers)
NewSession(headers) ==
    [headers |-> HeadersUpdate(LIBRARY_HEADERS, headers),
     cookies |-> {},
     closed |-> FALSE]

\* the session built by __init__
InitSession == NewSession(BROWSER_HEADERS)

\* the session built by login before a retry
RetrySession == NewSession(RETRY_HEADERS)

\* the cookie jar of session s after a response that sets cookie name
SetCookie(sess, s, name) == [sess EXCEPT ![s].cookies = @ \cup {name}]

---------------------------------------------------------------------------
(* Transport outcomes. *)

\* requests.exceptions: the classes derived from RequestException
RequestExceptionTypes ==
    {"RequestException", "HTTPError", "ConnectionError", "Timeout",
     "ConnectTimeout", "ReadTimeout", "SSLError", "TooManyRedirects"}

\* an except clause that names requests.Timeout instead
TimeoutsOnly(e) == e.type \in {"Timeout", "ConnectTimeout", "ReadTimeout"}

\* `except requests.RequestException` matches e
IsRequestException(e) == e.type \in RequestExceptionTypes

\* str(e)
ExcText(e) == e.text

\* no exception
NoException == [type |-> "None", text |-> <<>>]

\* what a session.get or session.post can raise
TransportErrors ==
    {[type |-> "ConnectionError", text |-> <<"r","e","f","u","s","e","d">>],
     [type |-> "ReadTimeout", text |-> <<"t","i","m","e","d"," ","o","u","t">>]}

\* what response.raise_for_status() raises
HTTP_ERROR == [type |-> "HTTPError", text |-> <<"H","T","T","P"," ","e","r","r","o","r">>]

\* response.raise_for_status() raises for this status
RaisesForStatus(status) == 400 <= status /\ status < 600

\* final status codes of a response: 2xx, a 3xx that is not followed, and
\* one that raise_for_status raises for
StatusCodes == {200, 304, 403}

\* pieces of a login page
GetChunks ==
    {CSRF_NAME \o <<" ">>, CSRF_NAME, CSRF_VALUE \o <<"a","b","\"">>,
     CSRF_VALUE \o <<"\"">>, <<"\n">>, <<"x">>}

\* pieces of the page that answers the form
PostChunks ==
    {KONTO_ZABLOKOWANE, ACCOUNT_BLOCKED, BLOCKED,
     STRONA_GLOWNA, ZALOGOWANY_JAKO, DASHBOARD,
     ZALOGUJ_SIE, LOGIN, SIGN_IN,
     <<"L","o","g">>, <<"i","n">>, <<"x">>}

\* pieces of a page that reports a ban: the label the reason follows, the
\* separators and terminators of the reason pattern, and a reason
BanChunks ==
    {KONTO_ZABLOKOWANE, ACCOUNT_BLOCKED, <<":">>, <<" ">>, <<"<">>, <<"\n">>,
     <<"T","O","S">>}

\* pieces of a login page that reports an error: elements of class alert,
\* one followed by text and one by a nested tag, an element of another
\* class, white space, a tag and a message
AlertChunks ==
    {LOGIN,
     CLASS_ATTR \o ALERT \o <<"\"", ">">>,
     CLASS_ATTR \o ALERT \o <<"\"", ">", "<">>,
     CLASS_ATTR \o <<"x", "\"", ">">>,
     <<" ">>, <<"<">>, <<"m">>}

\* pieces of the answers the login flow is run against: one page of each
\* kind; the classifier is run on all of PostChunks under ClassSpec
RespChunks == {ACCOUNT_BLOCKED, DASHBOARD, ZALOGUJ_SIE}

Texts(chunks, n) == {Concat(c) : c \in SeqsUpTo(chunks, n)}

\* login_url
LoginUrl == panel_url \o LOGIN_PATH

\* the final URL of the form's answer, after redirects
FinalUrls == {panel_url \o <<"/">>, LoginUrl}

Raised(e) == [exc |-> e, status |-> 0, text |-> <<>>, url |-> <<>>]

Responded(status, text, url) ==
    [exc |-> NoException, status |-> status, text |-> text, url |-> url]

\* what a call can come to: an exception, or a response with one of the
\* texts and one of the final URLs
Outcomes(texts, urls) ==
    {Raised(e) : e \in TransportErrors}
    \cup {Responded(st, t, u) : st \in StatusCodes, t \in texts, u \in urls}

PANEL == <<"h","t","t","p","s",":","/","/","p","1">>

Accounts ==
    {[panel_url |-> PANEL, username |-> <<"a","n","n">>],
     [panel_url |-> PANEL \o <<"/">>, username |-> <<"b","o","b">>]}

---------------------------------------------------------------------------
(* get_csrf_token. *)

\* CSRF_PATTERN matched at i: where the token starts and ends, <<0, 0>> when
\* the pattern does not match at i
CsrfMatchAt(text, i) ==
    IF ~LitAt(text, i, CSRF_NAME) THEN <<0, 0>>
    ELSE LET j == i + Len(CSRF_NAME)
             k == SkipIn(text, j, WHITESPACE)
             m == k + Len(CSRF_VALUE)
             n == StopAt(text, m, {"\""})
         IN  IF k > j /\ LitAt(text, k, CSRF_VALUE) /\ n <= Len(text) /\ n > m
             THEN <<m, n - 1>> ELSE <<0, 0>>

\* CSRF_PATTERN.search(text): group 1 of the leftmost match, or None
CSRF_PATTERN(text) ==
    LET starts == {i \in 1..Len(text) : CsrfMatchAt(text, i) # <<0, 0>>}
    IN  IF starts = {} THEN None
        ELSE LET at == CsrfMatchAt(text, Min(starts))
             IN  SubSeq(text, at[1], at[2])

\* get_csrf_token given what session.get did: [raise |-> the exception that
\* leaves it or None, value |-> the token it returns or None]
get_csrf_token(out) ==
    LET e == IF out.exc # NoException THEN out.exc
             ELSE IF RaisesForStatus(out.status) THEN HTTP_ERROR
             ELSE NoException
    IN  IF e # NoException
        THEN IF IsRequestException(e)
             THEN [raise |-> NoException, value |-> None]
             ELSE [raise |-> e, value |-> None]
        ELSE [raise |-> NoException, value |-> CSRF_PATTERN(out.text)]

---------------------------------------------------------------------------
(* The client: __init__, login, _do_login, close. *)

NoResponse == [exc |-> NoException, status |-> 0, text |-> <<>>, url |-> <<>>]

\* an HTTP request as the log records it, with what came of it: the
\* exception the call raised (or NoException), the status of its response
\* and the token get_csrf_token made of it
Request(method, token, out, found) ==
    [method |-> method, session |-> session, attempt |-> attempt,
     csrfmiddlewaretoken |-> token, exc |-> out.exc, status |-> out.status,
     found |-> found]

\* a no-token result that reports the last transport error
NoTokenResultWithLastError(username) ==
    LoginResult(NETWORK_ERROR, MSG_NO_TOKEN, panel_url, username, last_error)

\* the result _do_login returns when there is no token
NoTokenResult(username) ==
    LoginResult(NETWORK_ERROR, MSG_NO_TOKEN, panel_url, username, None)

\* the result after the loop with the details left out
RetriesFailedWithoutDetails(username) ==
    LoginResult(NETWORK_ERROR,
                MSG_RETRY_PREFIX \o Str(retry_count) \o MSG_RETRY_SUFFIX,
                panel_url, username, None)

\* the result login returns after the loop
RetriesFailedResult(username) ==
    LoginResult(NETWORK_ERROR,
                MSG_RETRY_PREFIX \o Str(retry_count) \o MSG_RETRY_SUFFIX,
                panel_url, username, last_error)

\* the result of _do_login assigned but not returned
ContinueAfterAttempt(result) ==
    /\ returned' = returned
    /\ pc' = "loop"

\* `return result` inside the try of login
ReturnFromAttempt(result) ==
    /\ returned' = Append(returned, result)
    /\ pc' = "returned"

\* an except clause that keeps the session
KeepSessionOnException(e, sess) ==
    /\ last_error' = ExcText(e)
    /\ sessions' = sess
    /\ session' = session
    /\ pc' = "loop"

\* an except clause that records only the first error
KeepFirstError(e, sess) ==
    /\ last_error' = IF last_error = None THEN ExcText(e) ELSE last_error
    /\ sessions' = Append(sess, RetrySession)
    /\ session' = Len(sess) + 1
    /\ pc' = "loop"

\* an except clause that submits the form again on the new session, without
\* fetching a token first
RepostOnException(e, sess) ==
    /\ last_error' = ExcText(e)
    /\ sessions' = Append(sess, RetrySession)
    /\ session' = Len(sess) + 1
    /\ pc' = "post"

\* the except clause of login, entered with the sessions as the failed call
\* left them
OnRequestException(e, sess) ==
    /\ last_error' = ExcText(e)
    /\ sessions' = Append(sess, RetrySession)
    /\ session' = Len(sess) + 1
    /\ pc' = "loop"

\* an exception e raised inside the try of login
LoginExcept(e, sess) ==
    IF IsRequestException(e)
    THEN OnRequestException(e, sess) /\ UNCHANGED escaped
    ELSE /\ escaped' = e
         /\ pc' = "raised"
         /\ sessions' = sess
         /\ UNCHANGED <<last_error, session>>

\* Serv00Client(panel_url, timeout) has been constructed by the with
\* statement of check_account
Init ==
    /\ account \in Accounts
    /\ retry_count \in (0 - 1)..MaxRetry
    /\ panel_url = RstripSlash(account.panel_url)
    /\ sessions = <<InitSession>>
    /\ session = 1
    /\ pc = "with"
    /\ attempt = 0
    /\ last_error = None
    /\ csrf_token = None
    /\ response = NoResponse
    /\ returned = <<>>
    /\ escaped = NoException
    /\ log = <<>>
    /\ attemptStart = <<>>
    /\ parsed = <<>>
    /\ config = <<>>
    /\ idx = 0
    /\ results = <<>>
    /\ commands = <<>>
    /\ exit_code = NotExited
    /\ cur = 1
    /\ other = NoInstance

\* client.login(username, password, retry_count=retry_count) is called
Login ==
    /\ pc = "with"
    /\ pc' = "loop"
    /\ last_error' = None
    /\ UNCHANGED <<account, retry_count, panel_url, sessions, session, attempt,
                   csrf_token, response, returned, escaped, log, attemptStart,
                   parsed>>
    /\ UNCHANGED <<outer, cur, other>>

\* a loop that makes one attempt whatever retry_count is
AttemptAtLeastOnce ==
    /\ pc = "loop"
    /\ attempt < Max({retry_count, 1})
    /\ attempt' = attempt + 1
    /\ pc' = "get"
    /\ attemptStart' = Append(attemptStart, sessions[session])
    /\ UNCHANGED <<account, retry_count, panel_url, sessions, session,
                   last_error, csrf_token, response, returned, escaped, log,
                   parsed>>
    /\ UNCHANGED <<outer, cur, other>>

\* the for loop enters its next iteration and calls _do_login
NextAttempt ==
    /\ pc = "loop"
    /\ attempt < retry_count
    /\ attempt' = attempt + 1
    /\ pc' = "get"
    /\ attemptStart' = Append(attemptStart, sessions[session])
    /\ UNCHANGED <<account, retry_count, panel_url, sessions, session,
                   last_error, csrf_token, response, returned, escaped, log,
                   parsed>>
    /\ UNCHANGED <<outer, cur, other>>

\* the for loop is exhausted
RetriesExhausted ==
    /\ pc = "loop"
    /\ attempt >= retry_count
    /\ returned' = Append(returned, RetriesFailedResult(account.username))
    /\ pc' = "returned"
    /\ UNCHANGED parsed
    /\ UNCHANGED <<account, retry_count, panel_url, sessions, session, attempt,
                   last_error, csrf_token, response, escaped, log, attemptStart>>
    /\ UNCHANGED <<outer, cur, other>>

\* _do_login, step 1: the token fetch and the test of its result, the GET
\* coming to one of outs
GetCsrfTokenOn(outs) ==
    /\ pc = "get"
    /\ \E out \in outs :
        LET got == get_csrf_token(out)
            sess == IF out.exc = NoException
                    THEN SetCookie(sessions, session, "csrftoken")
                    ELSE sessions
        IN  /\ log' = Append(log, Request("GET", None, out, got.value))
            /\ IF got.raise # NoException
               THEN LoginExcept(got.raise, sess)
                    /\ UNCHANGED <<csrf_token, returned>>
               ELSE /\ csrf_token' = got.value
                    /\ sessions' = sess
                    /\ UNCHANGED <<last_error, session, escaped>>
                    /\ IF got.value = None \/ got.value = <<>>
                       THEN ReturnFromAttempt(NoTokenResult(account.username))
                       ELSE pc' = "post" /\ UNCHANGED returned
    /\ UNCHANGED <<account, retry_count, panel_url, attempt, response,
                   attemptStart, parsed>>
    /\ UNCHANGED <<outer, cur, other>>

GetCsrfToken ==
    GetCsrfTokenOn(Outcomes(Texts(GetChunks, MaxPageLen), {LoginUrl}))

\* _do_login, steps 2 and 3: the form is posted and the response classified,
\* the POST coming to one of outs
SubmitLoginOn(outs) ==
    /\ pc = "post"
    /\ \E out \in outs :
        /\ log' = Append(log, Request("POST", csrf_token, out, None))
        /\ IF out.exc # NoException
           THEN LoginExcept(out.exc, sessions)
                /\ UNCHANGED <<response, returned, parsed>>
           ELSE /\ response' = out
                /\ parsed' = Append(parsed, out)
                /\ sessions' = SetCookie(sessions, session, "sessionid")
                /\ ReturnFromAttempt(_parse_login_result(out, account.username))
                /\ UNCHANGED <<last_error, session, escaped>>
    /\ UNCHANGED <<account, retry_count, panel_url, attempt, csrf_token,
                   attemptStart>>
    /\ UNCHANGED <<outer, cur, other>>

SubmitLogin ==
    SubmitLoginOn(Outcomes(Texts(RespChunks, MaxRespLen), FinalUrls))

\* the with block of check_account is left: __exit__ calls close
Exit ==
    /\ pc \in {"returned", "raised"}
    /\ sessions' = [sessions EXCEPT ![session].closed = TRUE]
    /\ pc' = "closed"
    /\ UNCHANGED <<account, retry_count, panel_url, session, attempt,
                   last_error, csrf_token, response, returned, escaped, log,
                   attemptStart, parsed>>
    /\ UNCHANGED <<outer, cur, other>>

Next ==
    \/ Login
    \/ NextAttempt
    \/ RetriesExhausted
    \/ GetCsrfToken
    \/ SubmitLogin
    \/ Exit

Spec == Init /\ [][Next]_vars

\* the program runs on: a call returns or raises within its timeout
FairSpec == Spec /\ WF_vars(Next)

---------------------------------------------------------------------------
(* The classifier alone, on every response within the bounds. *)

\* a constructed client holds a response to classify
InitClassify ==
    /\ account \in Accounts
    /\ retry_count = MaxRetry
    /\ panel_url = RstripSlash(account.panel_url)
    /\ sessions = <<InitSession>>
    /\ session = 1
    /\ pc = "parse"
    /\ attempt = 0
    /\ last_error = None
    /\ csrf_token = None
    /\ response \in {Responded(st, t, u) : st \in {200},
                       t \in Texts(PostChunks, MaxBodyLen)
                             \cup Texts(BanChunks, MaxBodyLen)
                             \cup Texts(AlertChunks, MaxBodyLen),
                       u \in FinalUrls}
    /\ returned = <<>>
    /\ escaped = NoException
    /\ log = <<>>
    /\ attemptStart = <<>>
    /\ parsed = <<>>
    /\ config = <<>>
    /\ idx = 0
    /\ results = <<>>
    /\ commands = <<>>
    /\ exit_code = NotExited
    /\ cur = 1
    /\ other = NoInstance

\* self._parse_login_result(response, username)
ParseLoginResult ==
    /\ pc = "parse"
    /\ returned' = Append(returned, _parse_login_result(response, account.username))
    /\ parsed' = Append(parsed, response)
    /\ pc' = "parsed"
    /\ UNCHANGED <<account, retry_count, panel_url, sessions, session, attempt,
                   last_error, csrf_token, response, escaped, log, attemptStart>>
    /\ UNCHANGED <<outer, cur, other>>

NextClassify == ParseLoginResult

ClassSpec == InitClassify /\ [][NextClassify]_vars

---------------------------------------------------------------------------
(* main: the loop over the accounts, check_account, the on_banned command  *)
(* and the exit status.                                                    *)

MaxAccounts == 2

CMD == <<"c","m","d">>
PASSWORD == <<"p","w">>
UNKNOWN_FIELD == <<"u","n","k","n","o","w","n">>

\* entries of config['accounts']: one with an on_banned command, one with
\* none, one with an empty one, and one that lacks its username
ConfigAccounts ==
    {[panel_url |-> PANEL, username |-> <<"a","n","n">>,
      password |-> PASSWORD, on_banned |-> CMD],
     [panel_url |-> PANEL \o <<"/">>, username |-> <<"b","o","b">>,
      password |-> PASSWORD],
     [panel_url |-> PANEL, username |-> <<"c","y">>,
      password |-> PASSWORD, on_banned |-> <<>>],
     [panel_url |-> PANEL, password |-> PASSWORD, on_banned |-> CMD]}

\* no account in hand yet
NoAccount == [none |-> TRUE]

\* account.get(key, default)
Get(acc, key, default) == IF key \in DOMAIN acc THEN acc[key] ELSE default

\* the keys check_account reads with account[key], in the order it reads them
REQUIRED_KEYS == <<"panel_url", "username", "password">>

\* the keys of REQUIRED_KEYS the account lacks
MissingKeys(acc) ==
    {k \in DOMAIN REQUIRED_KEYS : REQUIRED_KEYS[k] \notin DOMAIN acc}

\* str(KeyError(key))
KeyErrorText(key) ==
    LET name == CASE key = "panel_url" -> <<"p","a","n","e","l","_","u","r","l">>
                  [] key = "username" -> <<"u","s","e","r","n","a","m","e">>
                  [] OTHER -> <<"p","a","s","s","w","o","r","d">>
    IN  <<"'">> \o name \o <<"'">>

\* the exception account[key] raises for the first key the account lacks
KeyError(acc) ==
    [type |-> "KeyError",
     text |-> KeyErrorText(REQUIRED_KEYS[Min(MissingKeys(acc))])]

\* what session.get comes to under main: an exception, a login page with a
\* token, a page without one
MainGets ==
    {Raised([type |-> "ConnectionError", text |-> <<"r","e","f","u","s","e","d">>]),
     Responded(200, CSRF_NAME \o <<" ">> \o CSRF_VALUE \o <<"a","b","\"">>, LoginUrl),
     Responded(200, <<>>, LoginUrl)}

\* what session.post comes to under main: an exception, or one page of each
\* kind
MainPosts ==
    {Raised([type |-> "ReadTimeout", text |-> <<"t","i","m","e","d"," ","o","u","t">>])}
    \cup {Responded(200, t, LoginUrl) : t \in RespChunks \cup {<<>>}}

\* how subprocess.run(command, shell=True, timeout=60) can end
CommandOutcomes == {"ok", "nonzero", "timeout", "oserror"}

\* execute_shell_command swallowing nothing but what ends in a return code
ExecuteUncaught(outcome) ==
    IF outcome \in {"ok", "nonzero"}
    THEN [raise |-> NoException, value |-> outcome = "ok"]
    ELSE [raise |-> [type |-> "TimeoutExpired", text |-> <<"t","i","m","e","o","u","t">>],
          value |-> FALSE]

\* execute_shell_command(command, logger), given how the command ended:
\* [raise |-> the exception that leaves it, value |-> what it returns]
execute_shell_command(outcome) ==
    [raise |-> NoException, value |-> outcome = "ok"]

\* the counts main takes of its results
active_count(rs) == Cardinality({i \in DOMAIN rs : rs[i].status = ACTIVE})
banned_count(rs) == Cardinality({i \in DOMAIN rs : rs[i].status = BANNED})
failed_count(rs) ==
    Cardinality({i \in DOMAIN rs :
                   rs[i].status \in {LOGIN_FAILED, NETWORK_ERROR, UNKNOWN}})

\* an exit status that leaves the failed accounts out
ExitStatusOfBanned(rs) == IF banned_count(rs) > 0 THEN 1 ELSE 0

\* the status main exits with
ExitStatus(rs) ==
    IF banned_count(rs) > 0 \/ failed_count(rs) > 0 THEN 1 ELSE 0

\* an exception that is not caught: it leaves main and the interpreter exits
\* with status 1
Propagate(e) ==
    /\ exit_code' = 1
    /\ pc' = "exited"
    /\ UNCHANGED results

\* the except clause of main's loop
MainExcept(e) ==
    /\ results' = Append(results,
                         LoginResult(UNKNOWN, ExcText(e),
                                     Get(account, "panel_url", UNKNOWN_FIELD),
                                     Get(account, "username", UNKNOWN_FIELD),
                                     None))
    /\ pc' = "for"
    /\ UNCHANGED exit_code

\* main has loaded the configuration and stands before its loop
InitMain ==
    /\ config \in SeqsUpTo(ConfigAccounts, MaxAccounts) \ {<<>>}
    /\ retry_count \in 0..MaxRetry
    /\ idx = 0
    /\ results = <<>>
    /\ commands = <<>>
    /\ exit_code = NotExited
    /\ pc = "for"
    /\ account = NoAccount
    /\ panel_url = <<>>
    /\ sessions = <<>>
    /\ session = 0
    /\ attempt = 0
    /\ last_error = None
    /\ csrf_token = None
    /\ response = NoResponse
    /\ returned = <<>>
    /\ escaped = NoException
    /\ log = <<>>
    /\ attemptStart = <<>>
    /\ parsed = <<>>
    /\ cur = 1
    /\ other = NoInstance

\* `for account in accounts` takes up the next account
ForAccount ==
    /\ pc = "for"
    /\ idx < Len(config)
    /\ idx' = idx + 1
    /\ account' = config[idx + 1]
    /\ pc' = "check"
    /\ UNCHANGED <<retry_count, panel_url, sessions, session, attempt,
                   last_error, csrf_token, response, returned, escaped, log,
                   attemptStart, parsed>>
    /\ UNCHANGED <<config, results, commands, exit_code, cur, other>>

\* check_account up to its with statement: the account's keys are read and
\* the client is constructed; a missing key raises into main's except clause
CheckAccount ==
    /\ pc = "check"
    /\ IF MissingKeys(account) # {}
       THEN /\ MainExcept(KeyError(account))
            /\ UNCHANGED <<panel_url, sessions, session, attempt, last_error,
                           csrf_token, response, returned, escaped, log,
                           attemptStart, parsed>>
       ELSE /\ panel_url' = RstripSlash(account.panel_url)
            /\ sessions' = <<InitSession>>
            /\ session' = 1
            /\ attempt' = 0
            /\ last_error' = None
            /\ csrf_token' = None
            /\ response' = NoResponse
            /\ returned' = <<>>
            /\ escaped' = NoException
            /\ log' = <<>>
            /\ attemptStart' = <<>>
            /\ parsed' = <<>>
            /\ pc' = "with"
            /\ UNCHANGED <<results, exit_code>>
    /\ UNCHANGED <<account, retry_count, config, idx, commands, cur, other>>

\* check_account after its with statement: the status is logged; a Banned
\* account with an on_banned command goes on to run it, any other result is
\* returned and appended; an exception login let out reaches main's except
Report ==
    /\ pc = "closed"
    /\ IF escaped # NoException
       THEN MainExcept(escaped)
       ELSE IF returned[1].status = BANNED
               /\ Get(account, "on_banned", None) \notin {None, <<>>}
            THEN pc' = "on_banned" /\ UNCHANGED <<results, exit_code>>
            ELSE /\ results' = Append(results, returned[1])
                 /\ pc' = "for"
                 /\ UNCHANGED exit_code
    /\ UNCHANGED client_but_pc
    /\ UNCHANGED <<config, idx, commands, cur, other>>

\* execute_shell_command(on_banned, logger), then check_account returns
\* and main appends the result
ExecuteShellCommand ==
    /\ pc = "on_banned"
    /\ \E outcome \in CommandOutcomes :
        LET done == execute_shell_command(outcome)
        IN  /\ commands' = Append(commands,
                                  [account |-> idx,
                                   command |-> account.on_banned,
                                   outcome |-> outcome,
                                   closed |-> sessions[session].closed,
                                   result |-> returned[1]])
            /\ IF done.raise # NoException
               THEN MainExcept(done.raise)
               ELSE /\ results' = Append(results, returned[1])
                    /\ pc' = "for"
                    /\ UNCHANGED exit_code
    /\ UNCHANGED client_but_pc
    /\ UNCHANGED <<config, idx, cur, other>>

\* the loop is over: the counts are taken and the process exits
Exited ==
    /\ pc = "for"
    /\ idx >= Len(config)
    /\ exit_code' = ExitStatus(results)
    /\ pc' = "exited"
    /\ UNCHANGED client_but_pc
    /\ UNCHANGED <<config, idx, results, commands, cur, other>>

MainGetCsrfToken == GetCsrfTokenOn(MainGets)

MainSubmitLogin == SubmitLoginOn(MainPosts)

NextMain ==
    \/ ForAccount
    \/ CheckAccount
    \/ Login
    \/ NextAttempt
    \/ RetriesExhausted
    \/ MainGetCsrfToken
    \/ MainSubmitLogin
    \/ Exit
    \/ Report
    \/ ExecuteShellCommand
    \/ Exited

MainSpec == InitMain /\ [][NextMain]_vars

---------------------------------------------------------------------------
(* Two client instances, each in a call of login, their steps interleaved. *)

PANEL2 == <<"h","t","t","p","s",":","/","/","p","2","/">>

\* a client instance and its call of login: the attributes of self and the
\* locals of login and _do_login
Instance ==
    [account |-> account, retry_count |-> retry_count,
     panel_url |-> panel_url, sessions |-> sessions, session |-> session,
     pc |-> pc, attempt |-> attempt, last_error |-> last_error,
     csrf_token |-> csrf_token, response |-> response,
     returned |-> returned, escaped |-> escaped, log |-> log,
     attemptStart |-> attemptStart, parsed |-> parsed]

\* an instance as constructed for an account, before login is called
Constructed(acc, retries) ==
    [account |-> acc, retry_count |-> retries,
     panel_url |-> RstripSlash(acc.panel_url),
     sessions |-> <<InitSession>>, session |-> 1,
     pc |-> "with", attempt |-> 0, last_error |-> None,
     csrf_token |-> None, response |-> NoResponse,
     returned |-> <<>>, escaped |-> NoException, log |-> <<>>,
     attemptStart |-> <<>>, parsed |-> <<>>]

\* control passes to an instance whose session is an attribute of the class,
\* one object for all instances
ResumeOnClassSession(inst) ==
    /\ account' = inst.account
    /\ retry_count' = inst.retry_count
    /\ panel_url' = inst.panel_url
    /\ UNCHANGED <<sessions, session>>
    /\ pc' = inst.pc
    /\ attempt' = inst.attempt
    /\ last_error' = inst.last_error
    /\ csrf_token' = inst.csrf_token
    /\ response' = inst.response
    /\ returned' = inst.returned
    /\ escaped' = inst.escaped
    /\ log' = inst.log
    /\ attemptStart' = inst.attemptStart
    /\ parsed' = inst.parsed

\* control passes to instance inst: self and the locals are those of inst
Resume(inst) ==
    /\ account' = inst.account
    /\ retry_count' = inst.retry_count
    /\ panel_url' = inst.panel_url
    /\ sessions' = inst.sessions
    /\ session' = inst.session
    /\ pc' = inst.pc
    /\ attempt' = inst.attempt
    /\ last_error' = inst.last_error
    /\ csrf_token' = inst.csrf_token
    /\ response' = inst.response
    /\ returned' = inst.returned
    /\ escaped' = inst.escaped
    /\ log' = inst.log
    /\ attemptStart' = inst.attemptStart
    /\ parsed' = inst.parsed

\* the running instance is inst
Running(inst) ==
    /\ account = inst.account
    /\ retry_count = inst.retry_count
    /\ panel_url = inst.panel_url
    /\ sessions = inst.sessions
    /\ session = inst.session
    /\ pc = inst.pc
    /\ attempt = inst.attempt
    /\ last_error = inst.last_error
    /\ csrf_token = inst.csrf_token
    /\ response = inst.response
    /\ returned = inst.returned
    /\ escaped = inst.escaped
    /\ log = inst.log
    /\ attemptStart = inst.attemptStart
    /\ parsed = inst.parsed

\* two clients have been constructed, one per account
InitDuo ==
    /\ \E r \in 0..MaxRetry :
        Running(Constructed([panel_url |-> PANEL, username |-> <<"a","n","n">>], r))
    /\ other \in {Constructed([panel_url |-> PANEL2, username |-> <<"b","o","b">>], r) :
                    r \in 0..MaxRetry}
    /\ cur = 1
    /\ config = <<>>
    /\ idx = 0
    /\ results = <<>>
    /\ commands = <<>>
    /\ exit_code = NotExited

\* the running instance is set aside and the other one runs on
Switch ==
    /\ other # NoInstance
    /\ other' = Instance
    /\ Resume(other)
    /\ cur' = 3 - cur
    /\ UNCHANGED outer

NextDuo ==
    \/ Login
    \/ NextAttempt
    \/ RetriesExhausted
    \/ MainGetCsrfToken
    \/ MainSubmitLogin
    \/ Exit
    \/ Switch

DuoSpec == InitDuo /\ [][NextDuo]_vars

---------------------------------------------------------------------------
(* What the properties below speak of. *)

\* login has returned
LoginReturned == pc \in {"returned", "closed"}

\* the last HTTP request issued
LastReq == log[Len(log)]

\* request i ended in a transport exception
RaisedAt(i) == log[i].exc # NoException

\* the form submissions that raised: the attempts a transport exception ended
PostRaised == {i \in DOMAIN log : log[i].method = "POST" /\ RaisedAt(i)}

\* text contains part
Contains(text, part) ==
    \E i \in 1..Len(text) :
        /\ i + Len(part) - 1 <= Len(text)
        /\ SubSeq(text, i, i + Len(part) - 1) = part

ContainsAny(text, parts) == \E k \in DOMAIN parts : Contains(text, parts[k])

\* the token fetch of the current attempt has run and yielded no token
TokenAbsent ==
    /\ log # <<>>
    /\ LastReq.method = "GET"
    /\ csrf_token = None

---------------------------------------------------------------------------
(* C1: with retry_count >= 1, when the first k attempts each end in a      *)
(* transport exception and attempt k+1 gets a response to its form, login  *)
(* returns what the classifier makes of that response (Active for a body   *)
(* with a success indicator and no banned one), k+1 attempts were made and *)
(* the form submission of attempt k+1 is the last HTTP request ever issued. *)
C1_RetryThenComplete ==
    (/\ LoginReturned
     /\ retry_count >= 1
     /\ log # <<>>
     /\ LastReq.method = "POST"
     /\ ~RaisedAt(Len(log)))
    => LET k == Cardinality(PostRaised)
       IN  /\ k < retry_count
           /\ \A a \in 1..k : log[2 * a].method = "POST" /\ RaisedAt(2 * a)
                                /\ log[2 * a].attempt = a
           /\ attempt = k + 1
           /\ Len(attemptStart) = k + 1
           /\ Len(log) = 2 * (k + 1)
           /\ LastReq.attempt = k + 1
           /\ returned = <<_parse_login_result(response, account.username)>>
           /\ (/\ ContainsAny(response.text, SUCCESS_KEYWORDS)
               /\ ~ContainsAny(response.text, BANNED_KEYWORDS))
              => returned[1].status = ACTIVE

\* two attempts raised and the third was answered with a success page
C1_Witness ==
    /\ pc = "closed"
    /\ retry_count = 3
    /\ attempt = 3
    /\ Cardinality(PostRaised) = 2
    /\ Contains(response.text, DASHBOARD)
    /\ returned[1].status = ACTIVE

(* C2 as stated: a transport exception during either HTTP call of an       *)
(* attempt, the token-fetch GET or the form-submit POST, abandons the      *)
(* attempt, replaces the session with a fresh one, and the loop goes on to *)
(* the next attempt while attempts remain.                                 *)
C2_EitherCallRetries ==
    \A i \in DOMAIN log :
        RaisedAt(i) =>
            IF i < Len(log)
            THEN /\ log[i + 1].method = "GET"
                 /\ log[i + 1].attempt = log[i].attempt + 1
                 /\ log[i + 1].session # log[i].session
            ELSE /\ session # log[i].session
                 /\ pc = "loop" => /\ sessions[session].cookies = {}
                                   /\ ~sessions[session].closed
                                   /\ returned = <<>>
                 /\ log[i].attempt < retry_count => pc \in {"loop", "get"}

(* C2, amended: a transport exception during the form-submit POST of an    *)
(* attempt abandons the attempt, replaces the session with a newly built   *)
(* one (empty cookie jar), and the loop goes on to the next attempt while  *)
(* attempts remain; a transport exception during the token-fetch GET is    *)
(* caught inside the token fetch: the session is kept, no further attempt  *)
(* is made and login returns NetworkError.                                 *)
C2_PostFailureRetries ==
    \A i \in DOMAIN log :
        RaisedAt(i) =>
            IF log[i].method = "POST"
            THEN IF i < Len(log)
                 THEN /\ log[i + 1].method = "GET"
                      /\ log[i + 1].attempt = log[i].attempt + 1
                      /\ log[i + 1].session # log[i].session
                      /\ log[i + 1].session = log[i].session + 1
                 ELSE /\ session # log[i].session
                      /\ session = Len(sessions)
                      /\ pc = "loop" => /\ sessions[session].cookies = {}
                                        /\ ~sessions[session].closed
                                        /\ returned = <<>>
                      /\ log[i].attempt < retry_count => pc \in {"loop", "get"}
            ELSE /\ i = Len(log)
                 /\ LoginReturned
                 /\ session = log[i].session
                 /\ attempt = log[i].attempt
                 /\ returned[1].status = NETWORK_ERROR

\* a form submission timed out, the next attempt ran on another session,
\* and its token fetch raised in turn
C2_Witness ==
    /\ Len(log) = 3
    /\ log[2].method = "POST" /\ log[2].exc.type = "ReadTimeout"
    /\ log[3].method = "GET" /\ log[3].exc.type = "ConnectionError"
    /\ log[3].session # log[2].session
    /\ pc = "returned"

C4_LoginAlwaysReturns ==
    /\ [](/\ escaped = NoException
          /\ pc # "raised"
          /\ Len(returned) <= 1
          /\ LoginReturned <=> Len(returned) = 1
          /\ attempt <= IF retry_count > 0 THEN retry_count ELSE 0)
    /\ <>(LoginReturned /\ Len(returned) = 1)

\* login returned after a form submission that timed out and a token fetch
\* that a connection error ended
C4_Witness ==
    /\ LoginReturned
    /\ Len(returned) = 1
    /\ \E i \in DOMAIN log : log[i].method = "POST" /\ log[i].exc.type = "ReadTimeout"
    /\ LastReq.method = "GET" /\ LastReq.exc.type = "ConnectionError"

(* C5: when all retry_count >= 1 attempts end in a transport exception,    *)
(* login has made exactly retry_count attempts and returns NetworkError    *)
(* with the text of the last exception as details.                         *)
C5_AllAttemptsRaise ==
    (/\ LoginReturned
     /\ retry_count >= 1
     /\ Cardinality(PostRaised) = retry_count)
    => /\ attempt = retry_count
       /\ Len(log) = 2 * retry_count
       /\ LastReq.method = "POST"
       /\ Len(returned) = 1
       /\ returned[1].status = NETWORK_ERROR
       /\ returned[1].details = ExcText(LastReq.exc)
       /\ returned[1].message = MSG_RETRY_PREFIX \o Str(retry_count) \o MSG_RETRY_SUFFIX

\* three attempts raised, the last with another exception than the first
C5_Witness ==
    /\ pc = "returned"
    /\ retry_count = 3
    /\ Cardinality(PostRaised) = 3
    /\ log[2].exc # log[6].exc
    /\ returned[1].details = ExcText(log[6].exc)

(* C6: when the client goes out of use (the with block of check_account is *)
(* left), no session the client has held is still open: the one built at   *)
(* construction and every one built after a transport failure.             *)
C6_AllSessionsClosed ==
    pc = "closed" => \A s \in DOMAIN sessions : sessions[s].closed

(* C7: every attempt starts on a session with an empty cookie jar and the  *)
(* default headers the session had at construction.                        *)
C7_CleanSessionEachAttempt ==
    \A a \in DOMAIN attemptStart :
        /\ attemptStart[a].cookies = {}
        /\ attemptStart[a].headers = InitSession.headers

---------------------------------------------------------------------------
(* The classifier's properties, on every response within the bounds. *)

\* the response has been classified
Parsed == pc = "parsed"

HasBanned == ContainsAny(response.text, BANNED_KEYWORDS)

HasSuccess == ContainsAny(response.text, SUCCESS_KEYWORDS)

HasLoginPage == ContainsAny(response.text, LOGIN_PAGE_KEYWORDS)

(* C8: a response body that contains a banned indicator is classified      *)
(* Banned, whichever success or login-page indicators it also contains.    *)
C8_BannedHasPriority ==
    (Parsed /\ HasBanned) => returned[1].status = BANNED

\* a body with a banned, a success and a login-page indicator
C8_Witness ==
    /\ Parsed
    /\ HasBanned /\ HasSuccess /\ HasLoginPage
    /\ returned[1].status = BANNED

(* C9: a body with no banned indicator and a success indicator is          *)
(* classified Active even when it holds a login-page indicator too; a body *)
(* is classified LoginFailed exactly when it holds a login-page indicator  *)
(* and neither a banned nor a success indicator.                           *)
C9_FirstMatchWins ==
    Parsed =>
        /\ (~HasBanned /\ HasSuccess) => returned[1].status = ACTIVE
        /\ returned[1].status = LOGIN_FAILED
           <=> (HasLoginPage /\ ~HasBanned /\ ~HasSuccess)

\* a body with a success and a login-page indicator and no banned one
C9_Witness ==
    /\ Parsed
    /\ ~HasBanned /\ HasSuccess /\ HasLoginPage
    /\ returned[1].status = ACTIVE

(* C10: a body with none of the banned, success and login-page indicators  *)
(* is classified Unknown, with details that contain the final URL of the   *)
(* response; the classifier yields Unknown in no other case.               *)
C10_UnknownWithoutIndicators ==
    Parsed =>
        /\ returned[1].status = UNKNOWN
           <=> (~HasBanned /\ ~HasSuccess /\ ~HasLoginPage)
        /\ returned[1].status = UNKNOWN
           => Contains(returned[1].details, response.url)

\* a body of text without any indicator, answered from the login URL
C10_Witness ==
    /\ Parsed
    /\ response.text = <<"L","o","g","x","i","n">>
    /\ response.url = LoginUrl
    /\ returned[1].status = UNKNOWN

---------------------------------------------------------------------------
\* the result login returned
Result == returned[1]

(* C11 as stated: in every LoginResult login returns, details is populated *)
(* only when the status is Banned, Active or LoginFailed, or when it is    *)
(* NetworkError and details is the text of the underlying exception; for   *)
(* any other status details is absent.                                     *)
C11_DetailsOnlyForFourStatuses ==
    LoginReturned =>
        /\ Result.details # None
           => \/ Result.status \in {BANNED, ACTIVE, LOGIN_FAILED}
              \/ /\ Result.status = NETWORK_ERROR
                 /\ \E i \in DOMAIN log : /\ RaisedAt(i)
                                          /\ Result.details = ExcText(log[i].exc)
        /\ Result.status \notin {BANNED, ACTIVE, LOGIN_FAILED, NETWORK_ERROR}
           => Result.details = None

(* C11, amended: in every LoginResult login returns, details is populated  *)
(* only when the status is Banned (the reason), Active (the validity text, *)
(* when the body has one), LoginFailed (the error text), Unknown (the      *)
(* final URL of the response), or NetworkError after the retries ran out   *)
(* (the text of the exception the last form submission raised); the        *)
(* NetworkError for a missing token or for retry_count <= 0 has no details. *)
C11_DetailsByStatus ==
    LoginReturned =>
        /\ Result.status \in AccountStatus
        /\ Result.status \in {BANNED, LOGIN_FAILED} => Result.details # None
        /\ Result.status = ACTIVE
           => \/ Result.details = None
              \/ SubSeq(Result.details, 1, Len(VALIDITY_PREFIX)) = VALIDITY_PREFIX
        /\ Result.status = UNKNOWN
           => Result.details = URL_PREFIX \o response.url
        /\ Result.status = NETWORK_ERROR
           => IF retry_count <= 0 \/ TokenAbsent
              THEN Result.details = None
              ELSE /\ LastReq.method = "POST"
                   /\ RaisedAt(Len(log))
                   /\ Result.details = ExcText(LastReq.exc)

\* after one failed attempt login returned Unknown, with the URL of the
\* response as details
C11_Witness ==
    /\ pc = "closed"
    /\ Cardinality(PostRaised) = 1
    /\ Result.status = UNKNOWN
    /\ Result.details = URL_PREFIX \o LoginUrl

---------------------------------------------------------------------------
\* the form submissions that were answered
PostAnswered == {i \in DOMAIN log : log[i].method = "POST" /\ ~RaisedAt(i)}

---------------------------------------------------------------------------
(* C20: with retry_count <= 0 login issues no HTTP request, never replaces *)
(* the session and returns NetworkError with details absent; the number of *)
(* attempts never exceeds max(retry_count, 0); and the number of sessions  *)
(* created is 1 plus the number of attempts that raised a transport        *)
(* exception.                                                              *)
C20_AttemptsAndSessionsBounded ==
    /\ retry_count <= 0
       => /\ log = <<>>
          /\ attempt = 0
          /\ sessions \in {<<InitSession>>,
                           <<[InitSession EXCEPT !.closed = TRUE]>>}
          /\ session = 1
          /\ LoginReturned => /\ Result.status = NETWORK_ERROR
                              /\ Result.details = None
    /\ attempt <= Max({retry_count, 0})
    /\ Len(attemptStart) = attempt
    /\ \A i \in DOMAIN log : log[i].attempt \in 1..Max({retry_count, 0})
    /\ Len(sessions) = 1 + Cardinality(PostRaised)
    /\ Cardinality(PostRaised) = Cardinality({log[i].attempt : i \in PostRaised})

\* login was called with retry_count = 0 and has returned
C20_Witness ==
    /\ pc = "closed"
    /\ retry_count = 0
    /\ log = <<>>
    /\ Len(sessions) = 1
    /\ Result.status = NETWORK_ERROR
    /\ Result.details = None

---------------------------------------------------------------------------
\* the characters the reason pattern skips after its label
SEPARATORS == {":"} \cup WHITESPACE

\* where the label "Konto zablokowane" first stands in the body, 0 if nowhere
FirstLabel ==
    LET at == {i \in 1..Len(response.text) :
                 LitAt(response.text, i, KONTO_ZABLOKOWANE)}
    IN  IF at = {} THEN 0 ELSE Min(at)

\* what follows the first label, up to the next tag or newline
AfterLabel ==
    LET j == FirstLabel + Len(KONTO_ZABLOKOWANE)
    IN  SubSeq(response.text, j, StopAt(response.text, j, {"<", "\n"}) - 1)

\* text without the separator characters at its start
AfterSeparators(text) ==
    SubSeq(text, SkipIn(text, 1, SEPARATORS), Len(text))

(* C17: every Banned result carries a non-empty ban reason: the text       *)
(* captured after "Konto zablokowane" (up to the next tag or newline,      *)
(* stripped) when the body has it, and the fixed default otherwise, which  *)
(* includes a body that matched only "Account blocked" or "blocked" and a  *)
(* body where "Konto zablokowane" is followed only by separator or         *)
(* white-space characters before the next tag or newline.                  *)
C17_BanReasonNonEmpty ==
    (Parsed /\ Result.status = BANNED)
    => /\ Result.details \notin {None, <<>>}
       /\ Result.details =
            IF FirstLabel = 0 \/ AfterSeparators(AfterLabel) = <<>>
            THEN DEFAULT_BAN_REASON
            ELSE Strip(AfterSeparators(AfterLabel))

---------------------------------------------------------------------------
\* the places in the body where a class attribute whose value contains
\* "alert" starts, in an opening tag that is closed further on
AlertElements ==
    {i \in 1..Len(response.text) :
        /\ LitAt(response.text, i, CLASS_ATTR)
        /\ \E q \in (i + Len(CLASS_ATTR))..Len(response.text) :
            /\ response.text[q] = "\""
            /\ \A k \in (i + Len(CLASS_ATTR))..(q - 1) : response.text[k] # "\""
            /\ Contains(SubSeq(response.text, i + Len(CLASS_ATTR), q - 1), ALERT)
            /\ \E g \in (q + 1)..Len(response.text) : response.text[g] = ">"}

\* the text between the end of the opening tag of the element at i and the
\* next tag
ElementText(i) ==
    LET q == StopAt(response.text, i + Len(CLASS_ATTR), {"\""})
        g == StopAt(response.text, q + 1, {">"})
    IN  SubSeq(response.text, g + 1, StopAt(response.text, g + 1, {"<"}) - 1)

\* the alert elements whose opening tag is followed by text, not by a tag
AlertsWithText == {i \in AlertElements : ElementText(i) # <<>>}

---------------------------------------------------------------------------
\* account i of the configuration cannot be checked: reading its keys raises
Raises(i) == MissingKeys(config[i]) # {}

(* C13: an exception raised while checking one account does not abort the *)
(* run: every configured account is checked, in configuration order, the   *)
(* results list ends with exactly one LoginResult per account, and an      *)
(* account whose check raised is recorded with status Unknown and the      *)
(* text of the exception as its message.                                   *)
C13_OneResultPerAccount ==
    /\ idx \in 0..Len(config)
    /\ Len(results) \in {idx - 1, idx}
    /\ Len(results) = idx <=> pc \in {"for", "exited"}
    /\ pc = "exited" <=> exit_code # NotExited
    /\ pc = "exited" => Len(results) = Len(config)
    /\ \A i \in DOMAIN results :
        IF Raises(i)
        THEN results[i] =
               LoginResult(UNKNOWN, KeyError(config[i]).text,
                           Get(config[i], "panel_url", UNKNOWN_FIELD),
                           Get(config[i], "username", UNKNOWN_FIELD), None)
        ELSE /\ results[i].username = config[i].username
             /\ results[i].panel_url = RstripSlash(config[i].panel_url)
             /\ results[i].status \in AccountStatus

\* the first account lacks its username, the second was checked and found
\* Active, and main has exited
C13_Witness ==
    /\ pc = "exited"
    /\ Len(config) = 2
    /\ Raises(1)
    /\ results[1].status = UNKNOWN
    /\ results[1].message = <<"'","u","s","e","r","n","a","m","e","'">>
    /\ results[1].username = UNKNOWN_FIELD
    /\ results[2].status = ACTIVE

(* C14: after all accounts are checked, the exit status of the process is  *)
(* non-zero if and only if the result of at least one account is Banned,   *)
(* LoginFailed, NetworkError or Unknown; it is zero exactly when every     *)
(* result is Active.                                                       *)
C14_ExitStatus ==
    pc = "exited"
    => /\ exit_code \in {0, 1}
       /\ exit_code # 0
          <=> \E i \in DOMAIN results :
                results[i].status \in {BANNED, LOGIN_FAILED, NETWORK_ERROR, UNKNOWN}
       /\ exit_code = 0
          <=> \A i \in DOMAIN results : results[i].status = ACTIVE

\* one account Active and one Unknown: the process exited with status 1
C14_Witness ==
    /\ pc = "exited"
    /\ Len(results) = 2
    /\ results[1].status = ACTIVE
    /\ results[2].status = UNKNOWN
    /\ ~Raises(2)
    /\ exit_code = 1

\* the accounts the on_banned command was run for, one entry per run
Ran == {commands[k].account : k \in DOMAIN commands}

\* account.get('on_banned') is set and not empty
HasOnBanned(acc) == Get(acc, "on_banned", None) \notin {None, <<>>}

(* C19: the on_banned command of an account is executed if and only if the *)
(* account's status is Banned and an on_banned command is configured (not  *)
(* empty), at most once per account per run, and after the client's        *)
(* session has been closed; a failure or timeout of the command changes    *)
(* neither the account's LoginResult nor the checking of later accounts.   *)
C19_OnBannedCommand ==
    /\ \A i \in DOMAIN results :
        i \in Ran <=> (results[i].status = BANNED /\ HasOnBanned(config[i]))
    /\ \A k \in DOMAIN commands :
        /\ commands[k].account \in 1..idx
        /\ commands[k].command = config[commands[k].account].on_banned
        /\ commands[k].closed
        /\ commands[k].account \in DOMAIN results
        /\ results[commands[k].account] = commands[k].result
        /\ commands[k].result.status = BANNED
        /\ \A j \in DOMAIN commands : commands[j].account = commands[k].account => j = k
    /\ pc = "on_banned"
       => /\ sessions[session].closed
          /\ returned[1].status = BANNED
          /\ idx \notin Ran
    /\ pc = "exited" => Len(results) = Len(config)

\* the command of the first account timed out; its result is Banned all the
\* same and the second account was checked
C19_Witness ==
    /\ pc = "exited"
    /\ Len(commands) = 1
    /\ commands[1].outcome = "timeout"
    /\ commands[1].account = 1
    /\ results[1].status = BANNED
    /\ Len(results) = 2
    /\ results[2].status = ACTIVE

---------------------------------------------------------------------------
\* the form submissions of instance c that raised
RaisedPosts(c) ==
    {i \in DOMAIN c.log : c.log[i].method = "POST" /\ c.log[i].exc # NoException}

\* the cookies the answered requests of instance c left on its session s
OwnCookies(c, s) ==
    {"csrftoken" : i \in {j \in DOMAIN c.log :
                            /\ c.log[j].session = s
                            /\ c.log[j].method = "GET"
                            /\ c.log[j].exc = NoException}}
    \cup {"sessionid" : i \in {j \in DOMAIN c.log :
                                 /\ c.log[j].session = s
                                 /\ c.log[j].method = "POST"
                                 /\ c.log[j].exc = NoException}}

\* the result login gives on its own for the requests in the log of c
OwnResult(c) ==
    LET last == c.log[Len(c.log)]
        raised == RaisedPosts(c)
    IN  IF c.log # <<>> /\ last.method = "POST" /\ last.exc = NoException
        THEN [_parse_login_result(c.response, c.account.username)
                EXCEPT !.panel_url = c.panel_url]
        ELSE IF c.log # <<>> /\ last.method = "GET"
        THEN LoginResult(NETWORK_ERROR, MSG_NO_TOKEN, c.panel_url,
                         c.account.username, None)
        ELSE LoginResult(NETWORK_ERROR,
                         MSG_RETRY_PREFIX \o Str(c.retry_count) \o MSG_RETRY_SUFFIX,
                         c.panel_url, c.account.username,
                         IF raised = {} THEN None ELSE last.exc.text)

\* instance c is in a state it reaches when it runs alone against the
\* outcomes its own requests came to: its sessions, their cookies and its
\* result are those its own log dictates
RunsAlone(c) ==
    /\ c.panel_url = RstripSlash(c.account.panel_url)
    /\ Len(c.sessions) = 1 + Cardinality(RaisedPosts(c))
    /\ c.session = Len(c.sessions)
    /\ \A i \in DOMAIN c.log :
        /\ c.log[i].session = 1 + Cardinality({j \in RaisedPosts(c) : j < i})
        /\ c.log[i].attempt = c.log[i].session
    /\ \A s \in DOMAIN c.sessions :
        /\ c.sessions[s].cookies = OwnCookies(c, s)
        /\ c.sessions[s].headers =
             IF s = 1 THEN InitSession.headers ELSE RetrySession.headers
        /\ c.sessions[s].closed <=> (s = c.session /\ c.pc = "closed")
    /\ \A a \in DOMAIN c.attemptStart :
        c.attemptStart[a] = IF a = 1 THEN InitSession ELSE RetrySession
    /\ Len(c.returned) <= 1
    /\ c.returned # <<>> <=> c.pc \in {"returned", "closed"}
    /\ c.returned # <<>> => c.returned[1] = OwnResult(c)

(* C15: client instances share no mutable state: when two Serv00Client     *)
(* instances run under any interleaving of their HTTP steps and session    *)
(* resets, each one's LoginResult and session state are those it produces  *)
(* when run alone against the same sequence of transport outcomes.         *)
C15_InstancesIndependent ==
    /\ RunsAlone(Instance)
    /\ other # NoInstance => RunsAlone(other)

\* both instances have been through a failed attempt and a session reset
\* and both have returned, the second one last: one Banned, one Active
C15_Witness ==
    /\ other # NoInstance
    /\ pc = "closed" /\ other.pc = "closed"
    /\ Cardinality(RaisedPosts(Instance)) = 1
    /\ Cardinality(RaisedPosts(other)) = 1
    /\ cur = 2
    /\ Result.status = BANNED
    /\ other.returned[1].status = ACTIVE

=============================================================================
